---- MODULE Spec2Model ----
(***************************************************************************)
(* A model of django_bread's bread.py: the permission gate every BREAD     *)
(* view goes through (BreadViewMixin.dispatch) and the label/value field   *)
(* resolver of LabelValueReadView (get_context_data and                    *)
(* get_field_label_value).                                                 *)
(*                                                                         *)
(* Python values are tagged records, so that values of different Python    *)
(* types stay distinct: None is [none |-> TRUE], a string s is             *)
(* [str |-> s], an integer n is [int |-> n], a plain function named f is   *)
(* [fn |-> f], and a bound method of the record is [method |-> body].      *)
(***************************************************************************)
EXTENDS Integers, Sequences, FiniteSets, TLC

VARIABLES
    fields,         \* LabelValueReadView.fields: the declared (label, evaluator) pairs
    pc,             \* where the request is in its handling
    view,           \* the view class the request is routed to
    request_user,   \* request.user
    object,         \* self.object of the read view
    context_data,   \* the context dict of get_context_data
    i,              \* position of the list comprehension in fields (1-based)
    acc,            \* the list under construction by the comprehension
    exc,            \* the exception that left the handler, if any
    response,       \* what dispatch returned, if it returned
    calls,          \* log of the calls the handler made during this request
    modes,          \* the branch of get_field_label_value taken for each field
    previous,       \* the outcome of the first of two identical requests
    bread,          \* a Bread object: its views, name, plural_name and namespace
    urlpatterns,    \* what Bread.get_urls returned, with the prefix it was given
    request,        \* self.request of the browse view: its path and GET parameters
    data            \* the context dict BrowseView.get_context_data returned

\* The request handled by the permission gate and the read view
viewVars == <<fields, pc, view, request_user, object, context_data, i, acc, exc,
              response, calls, modes, previous>>
\* The Bread object and its URL patterns
urlVars == <<bread, urlpatterns>>
\* The browse view's request and context
browseVars == <<request, data>>

vars == <<viewVars, urlVars, browseVars>>

\* The longest fields list the model enumerates.
MaxFields == 2

----------------------------------------------------------------------------
(* Python values *)

PyNone == [none |-> TRUE]
PyStr(s) == [str |-> s]
PyInt(n) == [int |-> n]
PyFn(f) == [fn |-> f]
PyMethod(body) == [method |-> body]

\* isinstance(x, six_string_types)
IsString(x) == "str" \in DOMAIN x

\* callable(x): functions and bound methods are callable, data is not
Callable(x) == "fn" \in DOMAIN x \/ "method" \in DOMAIN x

Digit(d) ==
    CASE d = 0 -> "0" [] d = 1 -> "1" [] d = 2 -> "2" [] d = 3 -> "3"
      [] d = 4 -> "4" [] d = 5 -> "5" [] d = 6 -> "6" [] d = 7 -> "7"
      [] d = 8 -> "8" [] d = 9 -> "9"

RECURSIVE NatToStr(_)
NatToStr(n) == IF n < 10 THEN Digit(n) ELSE NatToStr(n \div 10) \o Digit(n % 10)

\* str(x) for the non-callable, non-string values an evaluator can be
Str(x) ==
    CASE "int" \in DOMAIN x ->
           IF x.int < 0 THEN "-" \o NatToStr(0 - x.int) ELSE NatToStr(x.int)
      [] "none" \in DOMAIN x -> "None"
      [] "str" \in DOMAIN x -> x.str

\* The outcome of a call: a returned value or a raised exception.
Return(v) == [ok |-> TRUE, value |-> v]
Raise(e) == [ok |-> FALSE, exc |-> e]

----------------------------------------------------------------------------
(* The model class, its permissions and the users *)

UpperChars == <<"A","B","C","D","E","F","G","H","I","J","K","L","M",
                "N","O","P","Q","R","S","T","U","V","W","X","Y","Z">>
LowerChars == <<"a","b","c","d","e","f","g","h","i","j","k","l","m",
                "n","o","p","q","r","s","t","u","v","w","x","y","z">>

\* str.lower() on a sequence of characters
LowerChar(c) ==
    IF \E k \in DOMAIN UpperChars : UpperChars[k] = c
    THEN LowerChars[CHOOSE k \in DOMAIN UpperChars : UpperChars[k] = c]
    ELSE c

RECURSIVE Lower(_)
Lower(cs) == IF cs = <<>> THEN "" ELSE LowerChar(Head(cs)) \o Lower(Tail(cs))

\* self.bread.model._meta
ModelMeta == [app_label |-> "shop", object_name |-> <<"W","i","d","g","e","t">>]

ViewClasses == {"BrowseView", "LabelValueReadView", "EditView", "AddView", "DeleteView"}

\* the perm_name class attribute of each view
perm_name(v) ==
    CASE v = "BrowseView" -> "browse"
      [] v = "LabelValueReadView" -> "read"
      [] v = "EditView" -> "change"
      [] v = "AddView" -> "add"
      [] v = "DeleteView" -> "delete"

get_full_perm_name(short_name) ==
    ModelMeta.app_label \o "." \o short_name \o "_" \o Lower(ModelMeta.object_name)

permission_required(v) == get_full_perm_name(perm_name(v))

\* request.user: whether it is authenticated and the permissions its backends grant
PermSets == { {},
              {"shop.read_widget"},
              {"shop.browse_widget", "shop.change_widget", "shop.read_Widget"},
              {"shop.browse_widget", "shop.read_widget", "shop.change_widget",
               "shop.add_widget", "shop.delete_widget"} }
Users == [authenticated : BOOLEAN, perms : PermSets]

is_authenticated(user) == user.authenticated
has_perm(user, perm) == perm \in user.perms

----------------------------------------------------------------------------
(* Records, evaluators and FieldSpecs *)

\* A record exposes members by name; some names also are model fields with a
\* verbose name in the metadata. The same name is a plain attribute of one
\* record, a method of another and no member of a third.
Ada == [members |-> [full_name |-> PyMethod(Return(PyStr("Ada Lovelace"))),
                     nick |-> PyStr("ada")],
        meta |-> [full_name |-> "Full Name"]]
Grace == [members |-> [full_name |-> PyStr("Grace Hopper"),
                       bar |-> PyMethod(Return(PyInt(7))),
                       nick |-> PyStr("amazing")],
          meta |-> [bar |-> "Bar"]]
Edsger == [members |-> [full_name |-> PyMethod(Raise("ValueError")),
                        bar |-> PyMethod(Return(PyStr("baz")))],
           meta |-> [id |-> "ID"]]
Alan == [members |-> [full_name |-> PyStr("Alan Turing"),
                      bar |-> PyMethod(Raise("TypeError"))],
         meta |-> [full_name |-> "Full Name", bar |-> "Bar"]]
Records == {Ada, Grace, Edsger, Alan}

hasattr(obj, name) == name \in DOMAIN obj.members
getattr(obj, name) == obj.members[name]

\* A plain function of the context dict, as a view's author writes them:
\* lambda context_data: context_data['object'].nick
CallFn(f, ctx) ==
    CASE f = "nick_of" ->
           IF hasattr(ctx["object"], "nick")
           THEN Return(getattr(ctx["object"], "nick"))
           ELSE Raise("AttributeError")

Labels == {PyNone, PyStr(""), PyStr("Foo")}
Evaluators == {PyStr("full_name"), PyStr("bar"), PyFn("nick_of"), PyInt(42)}
FieldSpecs == Labels \X Evaluators
FieldLists == UNION {[1..n -> FieldSpecs] : n \in 0..MaxFields}

\* One entry of the call log; `field` is the 1-based position in fields of
\* the FieldSpec being resolved, 0 for a call made by dispatch
Call(op, target, args) == [field |-> 0, op |-> op, target |-> target, args |-> args]

\* utils.get_verbose_name: the human-readable name of the model field `name`
get_verbose_name(obj, name) ==
    IF name \in DOMAIN obj.meta
    THEN Return(PyStr(obj.meta[name]))
    ELSE Raise("ConfigurationError")

\* Invoking a bound method of the record with no arguments
CallMethod(attr) == attr.method

\* What one call of get_field_label_value does: the (label, value) pair it
\* returns or the exception that leaves it, the calls it made, in order, and
\* the mode (branch) it took.
Resolved(label, value, mode, log) ==
    [ok |-> TRUE, label |-> label, value |-> value, mode |-> mode, calls |-> log]
Failed(e, mode, log) ==
    [ok |-> FALSE, exc |-> e, mode |-> mode, calls |-> log]

\* InstanceMember with the member never invoked (value = attr)
MutInstanceMemberNoCall(obj, label, evaluator) ==
    LET name == evaluator.str
        attr == getattr(obj, name)
        mode == IF Callable(attr) THEN 2 ELSE 1
        log == <<Call("getattr", evaluator, <<>>)>>
    IN  IF label = PyNone
        THEN LET vn == get_verbose_name(obj, name)
                 log2 == log \o <<Call("get_verbose_name", evaluator, <<>>)>>
             IN  IF vn.ok
                 THEN Resolved(vn.value, attr, mode, log2)
                 ELSE Failed(vn.exc, mode, log2)
        ELSE Resolved(label, attr, mode, log)

\* InstanceMember deriving the label whenever it is falsy (`if not label`)
MutInstanceMemberFalsyLabel(obj, label, evaluator) ==
    LET name == evaluator.str
        attr == getattr(obj, name)
        mode == IF Callable(attr) THEN 2 ELSE 1
        got == IF Callable(attr) THEN CallMethod(attr) ELSE Return(attr)
        log == <<Call("getattr", evaluator, <<>>)>>
                 \o (IF Callable(attr) THEN <<Call("call", evaluator, <<>>)>> ELSE <<>>)
    IN  IF ~got.ok
        THEN Failed(got.exc, mode, log)
        ELSE IF label \in {PyNone, PyStr("")}
             THEN LET vn == get_verbose_name(obj, name)
                      log2 == log \o <<Call("get_verbose_name", evaluator, <<>>)>>
                  IN  IF vn.ok
                      THEN Resolved(vn.value, got.value, mode, log2)
                      ELSE Failed(vn.exc, mode, log2)
             ELSE Resolved(label, got.value, mode, log)

\* Modes 1 and 2: the evaluator names an instance attribute or method
InstanceMember(obj, label, evaluator) ==
    LET name == evaluator.str
        attr == getattr(obj, name)
        mode == IF Callable(attr) THEN 2 ELSE 1
        got == IF Callable(attr) THEN CallMethod(attr) ELSE Return(attr)
        log == <<Call("getattr", evaluator, <<>>)>>
                 \o (IF Callable(attr) THEN <<Call("call", evaluator, <<>>)>> ELSE <<>>)
    IN  IF ~got.ok
        THEN Failed(got.exc, mode, log)
        ELSE IF label = PyNone
             THEN LET vn == get_verbose_name(obj, name)
                      log2 == log \o <<Call("get_verbose_name", evaluator, <<>>)>>
                  IN  IF vn.ok
                      THEN Resolved(vn.value, got.value, mode, log2)
                      ELSE Failed(vn.exc, mode, log2)
             ELSE Resolved(label, got.value, mode, log)

\* LiteralString falling back to the evaluator for an absent label
MutLiteralStringLabelFromName(label, evaluator) ==
    Resolved(IF label = PyNone THEN evaluator ELSE label, evaluator, 3, <<>>)

\* Mode 3: a simple string
LiteralString(label, evaluator) == Resolved(label, evaluator, 3, <<>>)

\* NonString returning the evaluator itself in mode 5, without str()
MutNonStringNoStr(label, evaluator, ctx) ==
    IF Callable(evaluator)
    THEN LET got == CallFn(evaluator.fn, ctx)
             log == <<Call("call", evaluator, <<ctx>>)>>
         IN  IF got.ok
             THEN Resolved(label, got.value, 4, log)
             ELSE Failed(got.exc, 4, log)
    ELSE Resolved(label, evaluator, 5, <<>>)

\* Modes 4 and 5: the evaluator is not a string
NonString(label, evaluator, ctx) ==
    IF Callable(evaluator)
    THEN LET got == CallFn(evaluator.fn, ctx)
             log == <<Call("call", evaluator, <<ctx>>)>>
         IN  IF got.ok
             THEN Resolved(label, got.value, 4, log)
             ELSE Failed(got.exc, 4, log)
    ELSE Resolved(label, PyStr(Str(evaluator)), 5, <<>>)

\* The log of r with the entries of `log` put in front
After(log, r) == [r EXCEPT !.calls = log \o r.calls]

\* get_field_label_value as a flat chain that forgot the simple-string branch:
\* a string naming no member falls through to the non-string branches
MutResolveNoLiteral(obj, label, evaluator, ctx) ==
    IF IsString(evaluator) /\ hasattr(obj, evaluator.str)
    THEN After(<<Call("hasattr", evaluator, <<>>)>>, InstanceMember(obj, label, evaluator))
    ELSE IF Callable(evaluator)
         THEN NonString(label, evaluator, ctx)
         ELSE Resolved(label, PyStr(Str(evaluator)), 5, <<>>)

\* get_field_label_value deriving an absent label for every string evaluator,
\* member or not
MutResolveDeriveAlways(obj, label, evaluator, ctx) ==
    IF IsString(evaluator)
    THEN IF hasattr(obj, evaluator.str)
         THEN After(<<Call("hasattr", evaluator, <<>>)>>, InstanceMember(obj, label, evaluator))
         ELSE IF label = PyNone
              THEN LET vn == get_verbose_name(obj, evaluator.str)
                       log == <<Call("hasattr", evaluator, <<>>),
                                Call("get_verbose_name", evaluator, <<>>)>>
                   IN  IF vn.ok
                       THEN Resolved(vn.value, evaluator, 3, log)
                       ELSE Failed(vn.exc, 3, log)
              ELSE After(<<Call("hasattr", evaluator, <<>>)>>, LiteralString(label, evaluator))
    ELSE NonString(label, evaluator, ctx)

get_field_label_value(obj, label, evaluator, ctx) ==
    IF IsString(evaluator)
    THEN IF hasattr(obj, evaluator.str)
         THEN After(<<Call("hasattr", evaluator, <<>>)>>, InstanceMember(obj, label, evaluator))
         ELSE After(<<Call("hasattr", evaluator, <<>>)>>, LiteralString(label, evaluator))
    ELSE NonString(label, evaluator, ctx)

----------------------------------------------------------------------------
(* The request *)

Unset == [unset |-> TRUE]
EmptyDict == [k \in {} |-> Unset]
NoPrevious == [none |-> TRUE]

\* Bread.views
BreadViews == {"B", "R", "E", "A", "D"}

\* BreadViewMixin.get_context_data on top of the detail view's context
\* (the object under its well-known key) and ReadView.get_context_data
SuperContext(obj, user) ==
    [object |-> obj,
     bread |-> [views |-> BreadViews],
     base_template |-> "base.html",
     may_browse |-> "B" \in BreadViews /\ has_perm(user, get_full_perm_name("browse")),
     may_read |-> "R" \in BreadViews /\ has_perm(user, get_full_perm_name("read")),
     may_edit |-> "E" \in BreadViews /\ has_perm(user, get_full_perm_name("change")),
     may_add |-> "A" \in BreadViews /\ has_perm(user, get_full_perm_name("add")),
     may_delete |-> "D" \in BreadViews /\ has_perm(user, get_full_perm_name("delete")),
     form |-> [instance |-> obj]]

Init ==
    /\ fields \in FieldLists
    /\ pc = "idle"
    /\ view = Unset
    /\ request_user = Unset
    /\ object = Unset
    /\ context_data = EmptyDict
    /\ i = 1
    /\ acc = <<>>
    /\ exc = "none"
    /\ response = "none"
    /\ calls = <<>>
    /\ modes = <<>>
    /\ previous = NoPrevious
    /\ bread = Unset
    /\ urlpatterns = Unset
    /\ request = Unset
    /\ data = Unset

\* Dispatch checking the permission before the login
MutDispatchPermFirst(user, v) ==
    /\ pc = "idle"
    /\ previous # NoPrevious => (user = previous.user /\ v = previous.view)
    /\ request_user' = user
    /\ view' = v
    /\ LET perm == permission_required(v)
           has_permission == has_perm(user, perm)
           log == <<Call("has_perm", user, <<perm>>)>>
       IN  IF ~has_permission
           THEN /\ calls' = log
                /\ exc' = "PermissionDenied"
                /\ pc' = "raised"
                /\ response' = response
           ELSE IF ~is_authenticated(user)
                THEN /\ calls' = log \o <<Call("is_authenticated", user, <<>>),
                                           Call("redirect_to_login", user, <<>>)>>
                     /\ response' = "redirect_to_login"
                     /\ pc' = "redirected"
                     /\ exc' = exc
                ELSE /\ calls' = log \o <<Call("is_authenticated", user, <<>>),
                                           Call("super.dispatch", PyStr(v), <<>>)>>
                     /\ exc' = exc
                     /\ IF v = "LabelValueReadView"
                        THEN pc' = "view" /\ response' = response
                        ELSE pc' = "responded" /\ response' = "view_response"
    /\ UNCHANGED <<fields, object, context_data, i, acc, modes, previous>>
    /\ UNCHANGED <<urlVars, browseVars>>

\* BreadViewMixin.dispatch
Dispatch(user, v) ==
    /\ pc = "idle"
    /\ previous # NoPrevious => (user = previous.user /\ v = previous.view)
    /\ request_user' = user
    /\ view' = v
    /\ IF ~is_authenticated(user)
       THEN /\ calls' = <<Call("is_authenticated", user, <<>>),
                          Call("redirect_to_login", user, <<>>)>>
            /\ response' = "redirect_to_login"
            /\ pc' = "redirected"
            /\ exc' = exc
       ELSE LET perm == permission_required(v)
                has_permission == has_perm(user, perm)
                log == <<Call("is_authenticated", user, <<>>),
                         Call("has_perm", user, <<perm>>)>>
            IN  IF ~has_permission
                THEN /\ calls' = log
                     /\ exc' = "PermissionDenied"
                     /\ pc' = "raised"
                     /\ response' = response
                ELSE /\ calls' = log \o <<Call("super.dispatch", PyStr(v), <<>>)>>
                     /\ exc' = exc
                     /\ IF v = "LabelValueReadView"
                        THEN pc' = "view" /\ response' = response
                        ELSE pc' = "responded" /\ response' = "view_response"
    /\ UNCHANGED <<fields, object, context_data, i, acc, modes, previous>>
    /\ UNCHANGED <<urlVars, browseVars>>

\* GetContextData collecting into a list that outlives the call
MutGetContextDataSharedList(obj) ==
    /\ pc = "view"
    /\ previous # NoPrevious => obj = previous.object
    /\ object' = obj
    /\ context_data' = SuperContext(obj, request_user)
    /\ i' = 1
    /\ acc' = acc
    /\ pc' = "resolving"
    /\ UNCHANGED <<fields, view, request_user, exc, response, calls, modes, previous>>
    /\ UNCHANGED <<urlVars, browseVars>>

\* LabelValueReadView.get_context_data up to the start of the comprehension:
\* the detail view has fetched self.object, the superclasses build the context
GetContextData(obj) ==
    /\ pc = "view"
    /\ previous # NoPrevious => obj = previous.object
    /\ object' = obj
    /\ context_data' = SuperContext(obj, request_user)
    /\ i' = 1
    /\ acc' = <<>>
    /\ pc' = "resolving"
    /\ UNCHANGED <<fields, view, request_user, exc, response, calls, modes, previous>>
    /\ UNCHANGED <<urlVars, browseVars>>

\* ResolveField building the list back to front
MutResolveFieldPrepend ==
    /\ pc = "resolving"
    /\ i <= Len(fields)
    /\ LET r == get_field_label_value(object, fields[i][1], fields[i][2], context_data)
       IN  /\ calls' = calls \o [k \in 1..Len(r.calls) |-> [r.calls[k] EXCEPT !.field = i]]
           /\ modes' = Append(modes, r.mode)
           /\ IF r.ok
              THEN /\ acc' = <<<<r.label, r.value>>>> \o acc
                   /\ i' = i + 1
                   /\ UNCHANGED <<pc, exc>>
              ELSE /\ exc' = r.exc
                   /\ pc' = "raised"
                   /\ UNCHANGED <<acc, i>>
    /\ UNCHANGED <<fields, view, request_user, object, context_data, response, previous>>
    /\ UNCHANGED <<urlVars, browseVars>>

\* ResolveField catching the evaluator's exception and going on with the
\* initial value ''
MutResolveFieldSwallow ==
    /\ pc = "resolving"
    /\ i <= Len(fields)
    /\ LET r == get_field_label_value(object, fields[i][1], fields[i][2], context_data)
       IN  /\ calls' = calls \o [k \in 1..Len(r.calls) |-> [r.calls[k] EXCEPT !.field = i]]
           /\ modes' = Append(modes, r.mode)
           /\ acc' = Append(acc, IF r.ok THEN <<r.label, r.value>> ELSE <<fields[i][1], PyStr("")>>)
           /\ i' = i + 1
           /\ UNCHANGED <<pc, exc>>
    /\ UNCHANGED <<fields, view, request_user, object, context_data, response, previous>>
    /\ UNCHANGED <<urlVars, browseVars>>

\* One iteration of the comprehension over self.fields
ResolveField ==
    /\ pc = "resolving"
    /\ i <= Len(fields)
    /\ LET r == get_field_label_value(object, fields[i][1], fields[i][2], context_data)
       IN  /\ calls' = calls \o [k \in 1..Len(r.calls) |-> [field |-> i] @@ r.calls[k]]
           /\ modes' = Append(modes, r.mode)
           /\ IF r.ok
              THEN /\ acc' = Append(acc, <<r.label, r.value>>)
                   /\ i' = i + 1
                   /\ UNCHANGED <<pc, exc>>
              ELSE /\ exc' = r.exc
                   /\ pc' = "raised"
                   /\ UNCHANGED <<acc, i>>
    /\ UNCHANGED <<fields, view, request_user, object, context_data, response, previous>>
    /\ UNCHANGED <<urlVars, browseVars>>

\* The comprehension is exhausted: store the list and return the context
Publish ==
    /\ pc = "resolving"
    /\ i > Len(fields)
    /\ context_data' = ("read_fields" :> acc) @@ context_data
    /\ response' = "rendered"
    /\ pc' = "done"
    /\ UNCHANGED <<fields, view, request_user, object, i, acc, exc, calls, modes, previous>>
    /\ UNCHANGED <<urlVars, browseVars>>

\* The same request arrives a second time: same user, same view, same record.
\* The request-scoped context and the log start afresh; what the view left
\* behind in its own locals is for the next get_context_data to overwrite.
Repeat ==
    /\ pc = "done"
    /\ previous = NoPrevious
    /\ previous' = [user |-> request_user, view |-> view, object |-> object,
                    fields |-> fields, read_fields |-> context_data["read_fields"]]
    /\ pc' = "idle"
    /\ context_data' = EmptyDict
    /\ exc' = "none"
    /\ response' = "none"
    /\ calls' = <<>>
    /\ modes' = <<>>
    /\ UNCHANGED <<fields, view, request_user, object, i, acc>>
    /\ UNCHANGED <<urlVars, browseVars>>

Next ==
    \/ \E user \in Users, v \in ViewClasses : Dispatch(user, v)
    \/ \E obj \in Records : GetContextData(obj)
    \/ ResolveField
    \/ Publish
    \/ Repeat

Spec == Init /\ [][Next]_vars

----------------------------------------------------------------------------
(* Vocabulary of the properties *)

\* The FieldSpec at position k and its parts
LabelOf(k) == fields[k][1]
EvaluatorOf(k) == fields[k][2]

\* get_field_label_value has been entered for position k in this request
Attempted(k) == k \in 1..Len(modes)
\* and has returned a pair
Returned(k) == Attempted(k) /\ k <= Len(acc)
\* and was left by an exception
Aborted(k) == Attempted(k) /\ k > Len(acc)

\* The context dict as the comprehension saw it: without 'read_fields'
ContextBefore == [key \in DOMAIN context_data \ {"read_fields"} |-> context_data[key]]

\* The logged calls of kind op made while resolving position k
CallsOf(k, op) == {n \in 1..Len(calls) : calls[n].field = k /\ calls[n].op = op}

\* Position k names a member of the record
NamesMember(k) == IsString(EvaluatorOf(k)) /\ hasattr(object, EvaluatorOf(k).str)
MemberOf(k) == getattr(object, EvaluatorOf(k).str)

----------------------------------------------------------------------------
(* C1 *)

\* C1: when get_context_data returns, context['read_fields'] holds exactly
\* Len(fields) pairs and the k-th pair is the (label, value) that
\* get_field_label_value yields for the k-th FieldSpec: order is kept and
\* nothing is dropped, duplicated or reordered.
C1_ReadFieldsInOrder ==
    pc = "done" =>
        /\ "read_fields" \in DOMAIN context_data
        /\ Len(context_data["read_fields"]) = Len(fields)
        /\ \A k \in 1..Len(fields) :
              LET r == get_field_label_value(object, LabelOf(k), EvaluatorOf(k), ContextBefore)
              IN  r.ok /\ context_data["read_fields"][k] = <<r.label, r.value>>

C1_Witness ==
    /\ pc = "done"
    /\ Len(fields) = 2
    /\ fields[1] # fields[2]
    /\ context_data["read_fields"][1] # context_data["read_fields"][2]

(* C2 *)

\* The mode the docstring assigns to an evaluator, by type, member presence
\* and callability
ExpectedMode(k) ==
    LET ev == EvaluatorOf(k)
    IN  IF IsString(ev)
        THEN IF ev.str \in DOMAIN object.members
             THEN IF Callable(object.members[ev.str]) THEN 2 ELSE 1
             ELSE 3
        ELSE IF Callable(ev) THEN 4 ELSE 5

C3_AttributeOrMethod ==
    \A k \in 1..Len(modes) :
        (NamesMember(k) /\ Returned(k)) =>
            IF Callable(MemberOf(k))
            THEN /\ MemberOf(k).method.ok
                 /\ acc[k][2] = MemberOf(k).method.value
                 /\ Cardinality(CallsOf(k, "call")) = 1
                 /\ \A n \in CallsOf(k, "call") : calls[n].args = <<>>
            ELSE /\ acc[k][2] = MemberOf(k)
                 /\ CallsOf(k, "call") = {}

C3_Witness ==
    /\ object = Grace
    /\ fields = <<<<PyStr("Foo"), PyStr("full_name")>>, <<PyNone, PyStr("bar")>>>>
    /\ Len(modes) = 2
    /\ acc = <<<<PyStr("Foo"), PyStr("Grace Hopper")>>, <<PyStr("Bar"), PyInt(7)>>>>

(* C4 *)

\* Position k names a member, and field metadata exists for the name
HasMetadata(k) == EvaluatorOf(k).str \in DOMAIN object.meta

\* C4 as stated: in modes 1 and 2 an absent label becomes the verbose name of
\* the field metadata, resolution fails with ConfigurationError when there is
\* no such metadata, and an explicit label is returned unchanged without the
\* metadata being consulted.
C4_Original ==
    \A k \in 1..Len(modes) :
        NamesMember(k) =>
            IF LabelOf(k) = PyNone
            THEN IF HasMetadata(k)
                 THEN Returned(k) => acc[k][1] = PyStr(object.meta[EvaluatorOf(k).str])
                 ELSE Aborted(k) /\ pc = "raised" /\ exc = "ConfigurationError"
            ELSE /\ Returned(k) => acc[k][1] = LabelOf(k)
                 /\ CallsOf(k, "get_verbose_name") = {}

\* The member at position k is a method whose invocation raises
MemberRaises(k) == Callable(MemberOf(k)) /\ ~MemberOf(k).method.ok

\* C4, amended: as C4, except that with an absent label and no metadata the
\* resolution fails with ConfigurationError only if evaluating the member
\* did not raise first; a raising mode-2 method leaves with its own error
\* before the label is looked at.
C4_LabelDerivation ==
    \A k \in 1..Len(modes) :
        NamesMember(k) =>
            IF LabelOf(k) = PyNone
            THEN IF HasMetadata(k)
                 THEN Returned(k) => acc[k][1] = PyStr(object.meta[EvaluatorOf(k).str])
                 ELSE /\ Aborted(k) /\ pc = "raised"
                      /\ exc = IF MemberRaises(k)
                               THEN MemberOf(k).method.exc
                               ELSE "ConfigurationError"
            ELSE /\ Returned(k) => acc[k][1] = LabelOf(k)
                 /\ CallsOf(k, "get_verbose_name") = {}

C4_Witness ==
    /\ object = Ada
    /\ fields = <<<<PyStr(""), PyStr("full_name")>>, <<PyNone, PyStr("full_name")>>>>
    /\ Len(modes) = 2
    /\ acc = <<<<PyStr(""), PyStr("Ada Lovelace")>>, <<PyStr("Full Name"), PyStr("Ada Lovelace")>>>>

(* C5 *)

\* C5: a string evaluator naming no member resolves to itself, with the
\* label exactly as supplied; with an absent label nothing is raised, the
\* label stays None and the metadata is not consulted.
C5_LiteralString ==
    \A k \in 1..Len(modes) :
        (IsString(EvaluatorOf(k)) /\ ~hasattr(object, EvaluatorOf(k).str)) =>
            /\ Returned(k)
            /\ acc[k] = <<LabelOf(k), EvaluatorOf(k)>>
            /\ CallsOf(k, "get_verbose_name") = {}
            /\ CallsOf(k, "getattr") = {}
            /\ CallsOf(k, "call") = {}

C5_Witness ==
    /\ object = Ada
    /\ fields = <<<<PyStr("Foo"), PyStr("bar")>>, <<PyNone, PyStr("bar")>>>>
    /\ Len(modes) = 2
    /\ acc = <<<<PyStr("Foo"), PyStr("bar")>>, <<PyNone, PyStr("bar")>>>>

(* C6 *)

\* C6: for a non-string evaluator the record's members and metadata are
\* never consulted; a callable is invoked once, with the context dict that
\* holds the record under 'object' as its only argument, and its result is
\* the value; anything else resolves to its string representation (42 to
\* "42"); the label is returned as supplied.
C6_NonString ==
    \A k \in 1..Len(modes) :
        ~IsString(EvaluatorOf(k)) =>
            /\ CallsOf(k, "hasattr") = {}
            /\ CallsOf(k, "getattr") = {}
            /\ CallsOf(k, "get_verbose_name") = {}
            /\ Returned(k) => acc[k][1] = LabelOf(k)
            /\ IF Callable(EvaluatorOf(k))
               THEN /\ Cardinality(CallsOf(k, "call")) = 1
                    /\ \A n \in CallsOf(k, "call") :
                          /\ calls[n].args = <<ContextBefore>>
                          /\ calls[n].args[1]["object"] = object
                    /\ Returned(k) =>
                          acc[k][2] = CallFn(EvaluatorOf(k).fn, ContextBefore).value
               ELSE /\ CallsOf(k, "call") = {}
                    /\ Returned(k)
                    /\ acc[k][2] = PyStr(Str(EvaluatorOf(k)))
                    /\ EvaluatorOf(k) = PyInt(42) => acc[k][2] = PyStr("42")

C6_Witness ==
    /\ object = Grace
    /\ fields = <<<<PyStr("Foo"), PyFn("nick_of")>>, <<PyNone, PyInt(42)>>>>
    /\ Len(modes) = 2
    /\ acc = <<<<PyStr("Foo"), PyStr("amazing")>>, <<PyNone, PyStr("42")>>>>

(* C7 *)

\* Position k has an absent label and a string evaluator that names neither
\* a member of the record nor an entry of the field metadata
MissingField(k) ==
    /\ LabelOf(k) = PyNone
    /\ IsString(EvaluatorOf(k))
    /\ ~hasattr(object, EvaluatorOf(k).str)
    /\ EvaluatorOf(k).str \notin DOMAIN object.meta

\* C7 as stated: resolving such a FieldSpec raises ConfigurationError and
\* produces no pair.
C7_Original ==
    \A k \in 1..Len(modes) :
        MissingField(k) => Aborted(k) /\ pc = "raised" /\ exc = "ConfigurationError"

\* C7, amended: resolving such a FieldSpec raises nothing and yields the pair
\* (None, evaluator); ConfigurationError leaves the resolver only for an
\* absent label whose evaluator names a member without field metadata.
C7_MissingFieldPassesThrough ==
    /\ \A k \in 1..Len(modes) :
          MissingField(k) => Returned(k) /\ acc[k] = <<PyNone, EvaluatorOf(k)>>
    /\ (pc = "raised" /\ exc = "ConfigurationError") =>
          /\ Aborted(i)
          /\ LabelOf(i) = PyNone
          /\ NamesMember(i)
          /\ ~HasMetadata(i)

C7_Witness ==
    /\ object = Ada
    /\ fields = <<<<PyNone, PyStr("bar")>>>>
    /\ pc = "done"
    /\ context_data["read_fields"] = <<<<PyNone, PyStr("bar")>>>>

(* C8 *)

\* The evaluator at position k is a method (mode 2) or a function (mode 4)
\* whose invocation raises, and the exception it raises
EvaluatorRaises(k) ==
    IF IsString(EvaluatorOf(k))
    THEN NamesMember(k) /\ MemberRaises(k)
    ELSE Callable(EvaluatorOf(k)) /\ ~CallFn(EvaluatorOf(k).fn, ContextBefore).ok
RaisedBy(k) ==
    IF IsString(EvaluatorOf(k))
    THEN MemberOf(k).method.exc
    ELSE CallFn(EvaluatorOf(k).fn, ContextBefore).exc

\* C8: once an invoked method or function has raised, the handler has been
\* left by that same exception: the evaluator was invoked exactly once, no
\* value stands in for it, no later FieldSpec was resolved and no
\* 'read_fields' entry, partial or not, is in the context.
C8_ErrorsPropagate ==
    \A k \in 1..Len(modes) :
        EvaluatorRaises(k) =>
            /\ pc = "raised"
            /\ exc = RaisedBy(k)
            /\ i = k
            /\ Len(modes) = k
            /\ Len(acc) = k - 1
            /\ Cardinality(CallsOf(k, "call")) = 1
            /\ \A n \in 1..Len(calls) : calls[n].field <= k
            /\ "read_fields" \notin DOMAIN context_data

C8_Witness ==
    /\ object = Edsger
    /\ fields = <<<<PyStr("Foo"), PyStr("full_name")>>, <<PyStr("Foo"), PyFn("nick_of")>>>>
    /\ pc = "raised"
    /\ exc = "ValueError"
    /\ i = 1

(* C9 *)

\* What one step may do to the resolver's inputs, and what a second
\* resolution of the same request must produce
C9_Step ==
    /\ fields' = fields
    /\ pc = "resolving" =>
          /\ object' = object
          /\ \A key \in DOMAIN context_data :
                key \in DOMAIN context_data' /\ context_data'[key] = context_data[key]
          /\ DOMAIN context_data' \subseteq DOMAIN context_data \cup {"read_fields"}
    /\ (pc' = "done" /\ previous' # NoPrevious) =>
          context_data'["read_fields"] = previous'.read_fields

\* C9: resolution never changes the FieldSpec list or the record, changes
\* the context only by adding 'read_fields', and the second resolution of
\* the same fields against the same record and context yields the same
\* sequence as the first.
C9_IdempotentAndPure == [][C9_Step]_vars

C9_Witness ==
    /\ pc = "done"
    /\ previous # NoPrevious
    /\ Len(fields) = 2
    /\ context_data["read_fields"] = previous.read_fields
    /\ context_data["read_fields"][1] # context_data["read_fields"][2]

(* C10 *)

\* The permission each view requires, spelled out
RequiredPerm(v) ==
    CASE v = "BrowseView" -> "shop.browse_widget"
      [] v = "LabelValueReadView" -> "shop.read_widget"
      [] v = "EditView" -> "shop.change_widget"
      [] v = "AddView" -> "shop.add_widget"
      [] v = "DeleteView" -> "shop.delete_widget"

Logged(op) == \E n \in 1..Len(calls) : calls[n].op = op

\* C10: once dispatch has acted, an unauthenticated user has been redirected
\* to the login page whatever permissions it holds, without the permission
\* being checked and without the view being run; an authenticated user
\* lacking '<app_label>.<perm_name>_<model>' has met PermissionDenied without
\* the view being run; and the view's own dispatch has run exactly when the
\* user is authenticated and holds that permission.
C10_DispatchGate ==
    pc # "idle" =>
        LET authed == request_user.authenticated
            permitted == RequiredPerm(view) \in request_user.perms
        IN  /\ ~authed =>
                  /\ pc = "redirected"
                  /\ response = "redirect_to_login"
                  /\ exc = "none"
                  /\ ~Logged("has_perm")
            /\ (authed /\ ~permitted) =>
                  /\ pc = "raised"
                  /\ exc = "PermissionDenied"
                  /\ response = "none"
            /\ Logged("super.dispatch") <=> (authed /\ permitted)
            /\ \A n \in 1..Len(calls) :
                  calls[n].op = "has_perm" => calls[n].args = <<RequiredPerm(view)>>

C10_Witness ==
    /\ pc = "redirected"
    /\ ~request_user.authenticated
    /\ RequiredPerm(view) \in request_user.perms
    /\ ~Logged("super.dispatch")

----------------------------------------------------------------------------
(* The Bread object and its URL patterns *)

\* str.upper() on a sequence of characters
UpperChar(c) ==
    IF \E k \in DOMAIN LowerChars : LowerChars[k] = c
    THEN UpperChars[CHOOSE k \in DOMAIN LowerChars : LowerChars[k] = c]
    ELSE c
Upper(cs) == [k \in DOMAIN cs |-> UpperChar(cs[k])]

\* c in cs, for a one-character c
Contains(cs, c) == \E k \in DOMAIN cs : cs[k] = c

\* The characters of w at the positions in S, in the order of w
SubWord(w, S) ==
    LET F[k \in 0..Len(w)] ==
            IF k = 0 THEN <<>>
            ELSE IF k \in S THEN Append(F[k - 1], w[k]) ELSE F[k - 1]
    IN  F[Len(w)]

\* Values of the `views` class attribute: every selection of letters, in
\* upper, lower and mixed case, in and out of order, with repeats and with
\* a letter that names no view
ViewsWords == { <<"B","R","E","A","D">>, <<"d","a","e","r","b">>,
                <<"b","R","e","A","d">>, <<"x","D","B","B","a">> }
ViewsSettings == {SubWord(w, S) : w \in ViewsWords, S \in SUBSET (1..5)}

\* Values of the plural_name and namespace class attributes
PluralNames == {PyNone, PyStr(""), PyStr("gadgetry")}
Namespaces == {"", "store"}

\* A subclass of Bread as declared, before __init__ has run
BreadClasses ==
    [constructed : {FALSE}, class_views : ViewsSettings, views : {Unset},
     name : {Unset}, plural_name : PluralNames, namespace : Namespaces]

\* Bread.__init__ (the model is a Model subclass and no moved setting is present)
Bread__init__(b) ==
    LET name == Lower(ModelMeta.object_name)
    IN  [b EXCEPT !.constructed = TRUE,
                  !.name = name,
                  !.views = Upper(b.class_views),
                  !.plural_name = IF @ \in {PyNone, PyStr("")} THEN PyStr(name \o "s") ELSE @]

get_url_name(b, view_name, include_namespace) ==
    LET url_namespace ==
            IF include_namespace
            THEN IF b.namespace # "" THEN b.namespace \o ":" ELSE ""
            ELSE ""
    IN  IF view_name = "browse"
        THEN url_namespace \o view_name \o "_" \o b.plural_name.str
        ELSE url_namespace \o view_name \o "_" \o b.name

\* django.conf.urls.url(regex, view, name=name)
url(regex, v, name) == [regex |-> regex, view |-> v, name |-> name]

\* Bread.get_urls with Add appended ahead of Edit
MutGetUrlsAddBeforeEdit(b, prefix_arg) ==
    LET prefix == IF prefix_arg THEN b.plural_name.str \o "/" ELSE ""
        when(letter, pattern) == IF Contains(b.views, letter) THEN <<pattern>> ELSE <<>>
    IN  when("B", url("^" \o prefix \o "$", "BrowseView",
                      get_url_name(b, "browse", FALSE)))
        \o when("R", url("^" \o prefix \o "(?P<pk>\\d+)/$", "ReadView",
                         get_url_name(b, "read", FALSE)))
        \o when("A", url("^" \o prefix \o "add/$", "AddView",
                         get_url_name(b, "add", FALSE)))
        \o when("E", url("^" \o prefix \o "(?P<pk>\\d+)/edit/$", "EditView",
                         get_url_name(b, "edit", FALSE)))
        \o when("D", url("^" \o prefix \o "(?P<pk>\\d+)/delete/$", "DeleteView",
                         get_url_name(b, "delete", FALSE)))

\* Bread.get_urls
get_urls(b, prefix_arg) ==
    LET prefix == IF prefix_arg THEN b.plural_name.str \o "/" ELSE ""
        when(letter, pattern) == IF Contains(b.views, letter) THEN <<pattern>> ELSE <<>>
    IN  when("B", url("^" \o prefix \o "$", "BrowseView",
                      get_url_name(b, "browse", FALSE)))
        \o when("R", url("^" \o prefix \o "(?P<pk>\\d+)/$", "ReadView",
                         get_url_name(b, "read", FALSE)))
        \o when("E", url("^" \o prefix \o "(?P<pk>\\d+)/edit/$", "EditView",
                         get_url_name(b, "edit", FALSE)))
        \o when("A", url("^" \o prefix \o "add/$", "AddView",
                         get_url_name(b, "add", FALSE)))
        \o when("D", url("^" \o prefix \o "(?P<pk>\\d+)/delete/$", "DeleteView",
                         get_url_name(b, "delete", FALSE)))

\* No request is being handled
ViewIdle ==
    /\ fields = <<>>
    /\ pc = "idle"
    /\ view = Unset
    /\ request_user = Unset
    /\ object = Unset
    /\ context_data = EmptyDict
    /\ i = 1
    /\ acc = <<>>
    /\ exc = "none"
    /\ response = "none"
    /\ calls = <<>>
    /\ modes = <<>>
    /\ previous = NoPrevious

InitUrls ==
    /\ ViewIdle
    /\ bread \in BreadClasses
    /\ urlpatterns = Unset
    /\ request = Unset
    /\ data = Unset

\* bread = SomeBread()
BreadInit ==
    /\ ~bread.constructed
    /\ bread' = Bread__init__(bread)
    /\ UNCHANGED <<urlpatterns, viewVars, browseVars>>

\* urlpatterns += bread.get_urls(prefix=prefix_arg)
GetUrls(prefix_arg) ==
    /\ bread.constructed
    /\ urlpatterns' = [prefix |-> prefix_arg, patterns |-> get_urls(bread, prefix_arg)]
    /\ UNCHANGED <<bread, viewVars, browseVars>>

NextUrls ==
    \/ BreadInit
    \/ \E prefix_arg \in BOOLEAN : GetUrls(prefix_arg)

SpecUrls == InitUrls /\ [][NextUrls]_vars

(* C11 *)

\* The letter of the views setting that selects each view, in either case,
\* and the views in the order get_urls lists them
LetterOf(v) ==
    CASE v = "BrowseView" -> {"B", "b"}
      [] v = "ReadView" -> {"R", "r"}
      [] v = "EditView" -> {"E", "e"}
      [] v = "AddView" -> {"A", "a"}
      [] v = "DeleteView" -> {"D", "d"}
UrlOrder == <<"BrowseView", "ReadView", "EditView", "AddView", "DeleteView">>
RankOf(v) == CHOOSE k \in DOMAIN UrlOrder : UrlOrder[k] = v

\* The view is selected by the views setting as declared
Selected(v) == \E k \in DOMAIN bread.class_views : bread.class_views[k] \in LetterOf(v)

\* The plural name in force: the declared one, or the model name with an s
PluralInForce ==
    IF bread.plural_name \in {PyNone, PyStr("")} THEN "widgets" ELSE bread.plural_name.str

ExpectedName(v) ==
    CASE v = "BrowseView" -> "browse_" \o PluralInForce
      [] v = "ReadView" -> "read_widget"
      [] v = "EditView" -> "edit_widget"
      [] v = "AddView" -> "add_widget"
      [] v = "DeleteView" -> "delete_widget"

ExpectedPath(v) ==
    CASE v = "BrowseView" -> "$"
      [] v = "ReadView" -> "(?P<pk>\\d+)/$"
      [] v = "EditView" -> "(?P<pk>\\d+)/edit/$"
      [] v = "AddView" -> "add/$"
      [] v = "DeleteView" -> "(?P<pk>\\d+)/delete/$"

\* C11: get_urls returns exactly one pattern for each view whose letter
\* occurs, in either case, in the views setting and none for any other
\* view, in the order Browse, Read, Edit, Add, Delete; the browse pattern
\* is named browse_<plural_name>, the others <view>_<lower-cased model
\* name>; the path starts with '<plural_name>/' iff prefix is true.
C11_GetUrls ==
    urlpatterns # Unset =>
        LET pats == urlpatterns.patterns
        IN  /\ \A v \in {UrlOrder[k] : k \in DOMAIN UrlOrder} :
                  Cardinality({k \in DOMAIN pats : pats[k].view = v})
                      = IF Selected(v) THEN 1 ELSE 0
            /\ \A j, k \in DOMAIN pats :
                  j < k => RankOf(pats[j].view) < RankOf(pats[k].view)
            /\ \A k \in DOMAIN pats :
                  /\ pats[k].name = ExpectedName(pats[k].view)
                  /\ pats[k].regex =
                        IF urlpatterns.prefix
                        THEN "^" \o PluralInForce \o "/" \o ExpectedPath(pats[k].view)
                        ELSE "^" \o ExpectedPath(pats[k].view)

C11_Witness ==
    /\ urlpatterns # Unset
    /\ urlpatterns.prefix
    /\ bread.class_views = <<"d", "a", "e", "b">>
    /\ Len(urlpatterns.patterns) = 4
    /\ urlpatterns.patterns[1].name = "browse_gadgetry"
    /\ urlpatterns.patterns[2].view = "EditView"
    /\ urlpatterns.patterns[3].regex = "^gadgetry/add/$"
    /\ urlpatterns.patterns[4].name = "delete_widget"

----------------------------------------------------------------------------
(* The browse view and its pagination links *)

\* The most pages the paginator of the model has.
MaxPages == 4

\* A dict is a sequence of <<key, value>> pairs with distinct keys.
\* dict(self.request.GET) maps each parameter to the list of its values.
Keys(d) == {d[k][1] : k \in DOMAIN d}
Paths == {"/widgets/", "/shop/gadgetry/"}
QueryDicts == { <<>>,
                <<<<"q", <<"x">>>>>>,
                <<<<"page", <<"2">>>>>>,
                <<<<"page", <<"1">>>>, <<"q", <<"a", "b">>>>>> }
Requests == [path : Paths, GET : QueryDicts]

\* d.update(key=value): an existing key keeps its place, a new one goes last
DictUpdate(d, key, value) ==
    IF key \in Keys(d)
    THEN [k \in DOMAIN d |-> IF d[k][1] = key THEN <<key, value>> ELSE d[k]]
    ELSE Append(d, <<key, value>>)

\* The key=value pairs urlencode(d, doseq=True) emits: one per element of a
\* list value, one with str(value) for any other value
RECURSIVE PairsOfList(_, _)
PairsOfList(key, values) ==
    IF values = <<>> THEN <<>>
    ELSE <<<<key, Head(values)>>>> \o PairsOfList(key, Tail(values))

RECURSIVE QueryPairs(_)
QueryPairs(d) ==
    IF d = <<>> THEN <<>>
    ELSE LET key == Head(d)[1]
             value == Head(d)[2]
         IN  (IF "int" \in DOMAIN value
              THEN <<<<key, Str(value)>>>>
              ELSE PairsOfList(key, value.list))
             \o QueryPairs(Tail(d))

RECURSIVE JoinPairs(_)
JoinPairs(pairs) ==
    IF pairs = <<>> THEN ""
    ELSE Head(pairs)[1] \o "=" \o Head(pairs)[2]
         \o (IF Tail(pairs) = <<>> THEN "" ELSE "&" \o JoinPairs(Tail(pairs)))

\* BreadViewMixin._get_new_url(page=page): the URL as text, and the path and
\* query pairs it was built from
get_new_url(req, page) ==
    LET request_kwargs == [k \in DOMAIN req.GET |-> <<req.GET[k][1], [list |-> req.GET[k][2]]>>]
        updated == DictUpdate(request_kwargs, "page", PyInt(page))
    IN  [path |-> req.path,
         query |-> QueryPairs(updated),
         text |-> req.path \o "?" \o JoinPairs(QueryPairs(updated))]

\* What the list view's get_context_data hands to BrowseView: no pagination
\* keys at all, or a page of a paginator with is_paginated set or not
Paginations ==
    {[present |-> FALSE]}
    \cup {[present |-> TRUE, is_paginated |-> b, number |-> p, num_pages |-> n] :
             b \in BOOLEAN, p \in 1..MaxPages, n \in 1..MaxPages}
has_valid_page(pg) == pg.present => pg.number <= pg.num_pages

SuperBrowseData(pg) ==
    IF pg.present
    THEN [is_paginated |-> pg.is_paginated,
          page_obj |-> [number |-> pg.number],
          paginator |-> [num_pages |-> pg.num_pages]]
    ELSE [k \in {} |-> Unset]

\* django.core.paginator.Page
has_next(page, paginator) == page.number < paginator.num_pages
has_previous(page) == page.number > 1
next_page_number(page) == page.number + 1
previous_page_number(page) == page.number - 1

\* data.get(key, default)
DictGet(d, key, default) == IF key \in DOMAIN d THEN d[key] ELSE default

\* BrowseView.get_context_data adding next_url for every page that has a next one
MutBrowseNextAlways(req, super_data) ==
    LET base == ("columns" :> <<>>) @@ ("filter" :> PyNone) @@ super_data
    IN  IF DictGet(base, "is_paginated", FALSE)
        THEN LET page == base["page_obj"]
                 num_pages == base["paginator"].num_pages
                 forward ==
                     IF has_next(page, base["paginator"])
                     THEN ("next_url" :> get_new_url(req, next_page_number(page)))
                          @@ ("last_url" :> get_new_url(req, num_pages))
                     ELSE [k \in {} |-> Unset]
                 backward ==
                     IF has_previous(page)
                     THEN (IF previous_page_number(page) # 1
                           THEN "previous_url" :> get_new_url(req, previous_page_number(page))
                           ELSE [k \in {} |-> Unset])
                          @@ ("first_url" :> get_new_url(req, 1))
                     ELSE [k \in {} |-> Unset]
             IN  backward @@ forward @@ base
        ELSE base

\* BrowseView.get_context_data on top of the superclasses' context
browse_get_context_data(req, super_data) ==
    LET base == ("columns" :> <<>>) @@ ("filter" :> PyNone) @@ super_data
    IN  IF DictGet(base, "is_paginated", FALSE)
        THEN LET page == base["page_obj"]
                 num_pages == base["paginator"].num_pages
                 forward ==
                     IF has_next(page, base["paginator"])
                     THEN (IF next_page_number(page) # num_pages
                           THEN "next_url" :> get_new_url(req, next_page_number(page))
                           ELSE [k \in {} |-> Unset])
                          @@ ("last_url" :> get_new_url(req, num_pages))
                     ELSE [k \in {} |-> Unset]
                 backward ==
                     IF has_previous(page)
                     THEN (IF previous_page_number(page) # 1
                           THEN "previous_url" :> get_new_url(req, previous_page_number(page))
                           ELSE [k \in {} |-> Unset])
                          @@ ("first_url" :> get_new_url(req, 1))
                     ELSE [k \in {} |-> Unset]
             IN  backward @@ forward @@ base
        ELSE base

InitBrowse ==
    /\ ViewIdle
    /\ bread = Unset
    /\ urlpatterns = Unset
    /\ request = Unset
    /\ data = Unset

\* One browse request: BrowseView.get_context_data
BrowseGetContextData(req, pg) ==
    /\ has_valid_page(pg)
    /\ request' = req
    /\ data' = browse_get_context_data(req, SuperBrowseData(pg))
    /\ UNCHANGED <<viewVars, urlVars>>

NextBrowse == \E req \in Requests, pg \in Paginations : BrowseGetContextData(req, pg)

SpecBrowse == InitBrowse /\ [][NextBrowse]_vars

(* C12 *)

\* The request's parameters other than page, as key=value pairs
RECURSIVE WithoutPage(_)
WithoutPage(pairs) ==
    IF pairs = <<>> THEN <<>>
    ELSE (IF Head(pairs)[1] = "page" THEN <<>> ELSE <<Head(pairs)>>)
         \o WithoutPage(Tail(pairs))
RequestPairs ==
    QueryPairs([k \in DOMAIN request.GET |->
                   <<request.GET[k][1], [list |-> request.GET[k][2]]>>])

\* The link u is this request's URL with its page parameter set to page n
\* and every other parameter kept
PointsTo(u, n) ==
    /\ u.path = request.path
    /\ Cardinality({k \in DOMAIN u.query : u.query[k][1] = "page"}) = 1
    /\ \A k \in DOMAIN u.query : u.query[k][1] = "page" => u.query[k][2] = NatToStr(n)
    /\ WithoutPage(u.query) = WithoutPage(RequestPairs)
    /\ u.text = u.path \o "?" \o JoinPairs(u.query)

LinkKeys == {"next_url", "last_url", "first_url", "previous_url"}

\* C12: for a paginated result on page p of n pages, last_url is present
\* iff p < n and points to page n, next_url is present iff p < n and
\* p + 1 # n (and points to p + 1), first_url is present iff p > 1 and
\* points to page 1, previous_url is present iff p > 1 and p - 1 # 1 (and
\* points to p - 1); a result that is not paginated gets none of the four.
C12_PaginationLinks ==
    data # Unset =>
        IF "is_paginated" \in DOMAIN data /\ data["is_paginated"]
        THEN LET p == data["page_obj"].number
                 n == data["paginator"].num_pages
             IN  /\ "last_url" \in DOMAIN data <=> p < n
                 /\ "last_url" \in DOMAIN data => PointsTo(data["last_url"], n)
                 /\ "next_url" \in DOMAIN data <=> (p < n /\ p + 1 # n)
                 /\ "next_url" \in DOMAIN data => PointsTo(data["next_url"], p + 1)
                 /\ "first_url" \in DOMAIN data <=> p > 1
                 /\ "first_url" \in DOMAIN data => PointsTo(data["first_url"], 1)
                 /\ "previous_url" \in DOMAIN data <=> (p > 1 /\ p - 1 # 1)
                 /\ "previous_url" \in DOMAIN data => PointsTo(data["previous_url"], p - 1)
        ELSE DOMAIN data \cap LinkKeys = {}

C12_Witness ==
    /\ data # Unset
    /\ request = [path |-> "/widgets/",
                  GET |-> <<<<"page", <<"1">>>>, <<"q", <<"a", "b">>>>>>]
    /\ "is_paginated" \in DOMAIN data
    /\ data["is_paginated"]
    /\ data["page_obj"].number = 2
    /\ data["paginator"].num_pages = 4
    /\ DOMAIN data \cap LinkKeys = {"next_url", "last_url", "first_url"}
    /\ data["next_url"].text = "/widgets/?page=3&q=a&q=b"
    /\ data["last_url"].text = "/widgets/?page=4&q=a&q=b"
    /\ data["first_url"].text = "/widgets/?page=1&q=a&q=b"

====
